---- MODULE Spec2Model ----
(***************************************************************************)
(* MNASNet backbone (paddlers/custom_models/cd/backbones/mnasnet.py).       *)
(*                                                                         *)
(* The module is a set of pure functions and constructors.  A call is      *)
(* drawn in the initial state (pc = "ready"), the action named after the   *)
(* called function runs it to completion (pc = "returned" or "raised"),    *)
(* and a constructed object can then be evaluated (pc = "evaluated").      *)
(* Real numbers (val, alpha, round_up_bias) are exact rationals            *)
(* [num, den] with den > 0; tensors are their shape plus the number of     *)
(* residual additions that produced them.                                  *)
(***************************************************************************)
EXTENDS Integers, Sequences, FiniteSets, TLC

VARIABLES pc, call, ret, obj, models

vars == <<pc, call, ret, obj, models>>

(***************************************************************************)
(* Bounds of the model.                                                    *)
(***************************************************************************)
\* val ranges over k / ValDen for k in 1 .. MaxValNum
ValDen == 2
MaxValNum == 180
\* divisor ranges over 1 .. MaxDivisor
MaxDivisor == 8
\* round_up_bias ranges over k / BiasDen for k in 0 .. BiasDen
BiasDen == 10
\* alpha ranges over k / AlphaDen for k in -1 .. MaxAlphaNum
AlphaDen == 20
MaxAlphaNum == 30
\* class_num ranges over 1 .. MaxClassNum, the batch size over 1 .. MaxBatch
MaxClassNum == 2
MaxBatch == 2
\* block channels range over 8 * (1 .. MaxChMult)
MaxChMult == 2
\* kernel_size ranges over 1 .. MaxKernel, stride over 0 .. MaxStride
MaxKernel == 6
MaxStride == 3
\* repeats ranges over 0 .. MaxRepeats
MaxRepeats == 3
\* a block's input is MaxSpatial - 1 or MaxSpatial pixels high and wide
MaxSpatial == 8

(***************************************************************************)
(* Rationals.                                                              *)
(***************************************************************************)
Rat(n, d) == [num |-> n, den |-> d]

Max(a, b) == IF a >= b THEN a ELSE b

\* Python's int() of the rational n / d, d > 0: truncation towards zero.
IntTrunc(n, d) == IF n >= 0 THEN n \div d ELSE -((-n) \div d)

NoValue == [kind |-> "None"]

(***************************************************************************)
(* _round_to_multiple_of(val, divisor, round_up_bias)                      *)
(***************************************************************************)
DefaultRoundUpBias == Rat(9, 10)

\* a plausible slip: int(val) // divisor * divisor, the half divisor forgotten
NewValFloorOnly(val, divisor) ==
    Max(divisor, (IntTrunc(val.num, val.den) \div divisor) * divisor)

\* a plausible slip: int(val + divisor / 2), never snapped to the divisor
NewValNoSnap(val, divisor) ==
    Max(divisor, IntTrunc(2 * val.num + divisor * val.den, 2 * val.den))

\* new_val = max(divisor, int(val + divisor / 2) // divisor * divisor)
NewVal(val, divisor) ==
    Max(divisor,
        (IntTrunc(2 * val.num + divisor * val.den, 2 * val.den) \div divisor) * divisor)

\* a plausible slip: the bias test dropped
BiasStepNever(new_val, val, divisor, bias) == new_val

\* return new_val if new_val >= round_up_bias * val else new_val + divisor
BiasStep(new_val, val, divisor, bias) ==
    IF new_val * bias.den * val.den >= bias.num * val.num
    THEN new_val
    ELSE new_val + divisor

\* assert 0.0 < round_up_bias < 1.0
BiasOk(bias) == 0 < bias.num /\ bias.num < bias.den

_round_to_multiple_of(val, divisor, bias) ==
    IF ~BiasOk(bias)
    THEN [raised |-> TRUE, value |-> NoValue]
    ELSE [raised |-> FALSE,
          value |-> BiasStep(NewVal(val, divisor), val, divisor, bias)]

(***************************************************************************)
(* _get_depths(alpha)                                                      *)
(***************************************************************************)
ReferenceDepths == <<32, 16, 24, 40, 80, 96, 192, 320>>

DepthDivisor == 8

\* depth * alpha
ScaledDepth(depth, alpha) == Rat(depth * alpha.num, alpha.den)

_get_depths(alpha) ==
    [i \in 1..Len(ReferenceDepths) |->
        _round_to_multiple_of(ScaledDepth(ReferenceDepths[i], alpha),
                              DepthDivisor, DefaultRoundUpBias).value]

(***************************************************************************)
(* The framework's layers, as far as their shapes go.                      *)
(***************************************************************************)
Conv2D(in_channels, out_channels, kernel_size, padding, stride, groups) ==
    [kind |-> "Conv2D", in_channels |-> in_channels, out_channels |-> out_channels,
     kernel_size |-> kernel_size, padding |-> padding, stride |-> stride,
     groups |-> groups]

BatchNorm2D(num_features) == [kind |-> "BatchNorm2D", num_features |-> num_features]

ReLU == [kind |-> "ReLU"]

AdaptiveAvgPool2D(output_size) ==
    [kind |-> "AdaptiveAvgPool2D", output_size |-> output_size]

Flatten == [kind |-> "Flatten"]

Linear(in_features, out_features) ==
    [kind |-> "Linear", in_features |-> in_features, out_features |-> out_features]

Sequential(items) == [kind |-> "Sequential", items |-> items]

\* The convolution, batch-normalization and linear layers held by a layer.
RECURSIVE CountLayers(_)
RECURSIVE CountItems(_, _)
CountItems(items, i) ==
    IF i > Len(items) THEN 0 ELSE CountLayers(items[i]) + CountItems(items, i + 1)

CountLayers(layer) ==
    CASE layer.kind \in {"Conv2D", "BatchNorm2D", "Linear"} -> 1
      [] layer.kind = "Sequential" -> CountItems(layer.items, 1)
      [] layer.kind = "_InvertedResidual" -> CountLayers(layer.layers)
      [] layer.kind = "MNASNet" ->
            CountLayers(layer.layers) + CountLayers(layer.classifier)
      [] OTHER -> 0

\* What a constructor call comes to: an object, or an AssertionError with the
\* number of layers the call had created by then.
Raise(created) == [raised |-> TRUE, created |-> created, obj |-> NoValue]

Built(o) == [raised |-> FALSE, created |-> CountLayers(o), obj |-> o]

(***************************************************************************)
(* Tensors and forward evaluation.                                         *)
(***************************************************************************)
Tensor(shape) == [ok |-> TRUE, shape |-> shape, adds |-> 0]

ShapeError(kind) == [ok |-> FALSE, shape |-> <<>>, adds |-> 0, at |-> kind]

ConvOut(size, layer) ==
    (size + 2 * layer.padding - layer.kernel_size) \div layer.stride + 1

\* y + x, elementwise
Add(y, x) ==
    IF ~y.ok THEN y
    ELSE IF ~x.ok THEN x
    ELSE IF y.shape = x.shape
         THEN [ok |-> TRUE, shape |-> y.shape, adds |-> y.adds + 1]
         ELSE ShapeError("add")

RECURSIVE Forward(_, _)
RECURSIVE ForwardItems(_, _, _)
ForwardItems(items, i, x) ==
    IF i > Len(items) THEN x ELSE ForwardItems(items, i + 1, Forward(items[i], x))

Forward(layer, x) ==
    IF ~x.ok THEN x
    ELSE CASE layer.kind = "Conv2D" ->
                IF /\ Len(x.shape) = 4
                   /\ x.shape[2] = layer.in_channels
                   /\ layer.in_channels % layer.groups = 0
                   /\ layer.out_channels % layer.groups = 0
                   /\ ConvOut(x.shape[3], layer) >= 1
                   /\ ConvOut(x.shape[4], layer) >= 1
                THEN [x EXCEPT !.shape = <<x.shape[1], layer.out_channels,
                                           ConvOut(x.shape[3], layer),
                                           ConvOut(x.shape[4], layer)>>]
                ELSE ShapeError("Conv2D")
           [] layer.kind = "BatchNorm2D" ->
                IF Len(x.shape) = 4 /\ x.shape[2] = layer.num_features
                THEN x
                ELSE ShapeError("BatchNorm2D")
           [] layer.kind = "ReLU" -> x
           [] layer.kind = "AdaptiveAvgPool2D" ->
                IF Len(x.shape) = 4
                THEN [x EXCEPT !.shape = <<x.shape[1], x.shape[2],
                                           layer.output_size, layer.output_size>>]
                ELSE ShapeError("AdaptiveAvgPool2D")
           [] layer.kind = "Flatten" ->
                IF Len(x.shape) = 4
                THEN [x EXCEPT !.shape = <<x.shape[1],
                                           x.shape[2] * x.shape[3] * x.shape[4]>>]
                ELSE ShapeError("Flatten")
           [] layer.kind = "Linear" ->
                IF Len(x.shape) >= 1 /\ x.shape[Len(x.shape)] = layer.in_features
                THEN [x EXCEPT !.shape[Len(x.shape)] = layer.out_features]
                ELSE ShapeError("Linear")
           [] layer.kind = "Sequential" -> ForwardItems(layer.items, 1, x)
           \* _InvertedResidual.forward
           [] layer.kind = "_InvertedResidual" ->
                IF layer.apply_residual
                THEN Add(Forward(layer.layers, x), x)
                ELSE Forward(layer.layers, x)
           \* MNASNet.forward
           [] layer.kind = "MNASNet" ->
                Forward(layer.classifier, Forward(layer.layers, x))

(***************************************************************************)
(* _InvertedResidual.__init__                                              *)
(***************************************************************************)
\* a plausible slip: a stride of 3 let through
StrideOkLoose(stride) == stride \in {1, 2, 3}

\* assert stride in [1, 2]
StrideOk(stride) == stride \in {1, 2}

\* assert kernel_size in [3, 5]
KernelOk(kernel_size) == kernel_size \in {3, 5}

\* a plausible slip: the stride left out of the test
ApplyResidualChannelsOnly(in_ch, out_ch, stride) == in_ch = out_ch

\* self.apply_residual = in_ch == out_ch and stride == 1
ApplyResidual(in_ch, out_ch, stride) == in_ch = out_ch /\ stride = 1

BlockLayers(in_ch, out_ch, kernel_size, stride, expansion_factor) ==
    LET mid_ch == in_ch * expansion_factor
    IN  Sequential(<<
            \* Pointwise
            Conv2D(in_ch, mid_ch, 1, 0, 1, 1),
            BatchNorm2D(mid_ch),
            ReLU,
            \* Depthwise
            Conv2D(mid_ch, mid_ch, kernel_size, kernel_size \div 2, stride, mid_ch),
            BatchNorm2D(mid_ch),
            ReLU,
            \* Linear pointwise
            Conv2D(mid_ch, out_ch, 1, 0, 1, 1),
            BatchNorm2D(out_ch)
        >>)

_InvertedResidual(in_ch, out_ch, kernel_size, stride, expansion_factor) ==
    IF ~StrideOk(stride) THEN Raise(0)
    ELSE IF ~KernelOk(kernel_size) THEN Raise(0)
    ELSE Built([kind |-> "_InvertedResidual",
                apply_residual |-> ApplyResidual(in_ch, out_ch, stride),
                layers |-> BlockLayers(in_ch, out_ch, kernel_size, stride,
                                       expansion_factor)])

(***************************************************************************)
(* _stack                                                                  *)
(***************************************************************************)
\* a plausible slip: range(repeats) in place of range(1, repeats)
RemainingCountOffByOne(repeats) == repeats

\* for _ in range(1, repeats)
RemainingCount(repeats) == Max(repeats - 1, 0)

\* The calls of a constructor in program order, up to and including the first
\* that raises: whether one raised, and the layers created in all.
RECURSIVE CreatedUpTo(_, _)
CreatedUpTo(results, i) ==
    IF i > Len(results) THEN 0
    ELSE IF results[i].raised THEN results[i].created
    ELSE results[i].created + CreatedUpTo(results, i + 1)

AnyRaised(results) == \E i \in 1..Len(results) : results[i].raised

_stack(in_ch, out_ch, kernel_size, stride, exp_factor, repeats) ==
    IF ~(repeats >= 1) THEN Raise(0)
    ELSE LET first == _InvertedResidual(in_ch, out_ch, kernel_size, stride, exp_factor)
             remaining == [i \in 1..RemainingCount(repeats) |->
                              _InvertedResidual(out_ch, out_ch, kernel_size, 1,
                                                exp_factor)]
             blocks == <<first>> \o remaining
         IN  IF AnyRaised(blocks) THEN Raise(CreatedUpTo(blocks, 1))
             ELSE Built(Sequential([i \in 1..Len(blocks) |-> blocks[i].obj]))

(***************************************************************************)
(* MNASNet.__init__                                                        *)
(***************************************************************************)
\* assert alpha > 0.0
AlphaOk(alpha) == alpha.num > 0

\* First layer: regular conv; then depthwise separable, no skip.
StemLayers(depths) ==
    <<Conv2D(3, depths[1], 3, 1, 2, 1),
      BatchNorm2D(depths[1]),
      ReLU,
      Conv2D(depths[1], depths[1], 3, 1, 1, depths[1]),
      BatchNorm2D(depths[1]),
      ReLU,
      Conv2D(depths[1], depths[2], 1, 0, 1, 1),
      BatchNorm2D(depths[2]),
      ReLU>>

\* MNASNet blocks: stacks of inverted residuals.
Stacks(depths) ==
    <<_stack(depths[2], depths[3], 3, 2, 3, 3),
      _stack(depths[3], depths[4], 5, 2, 3, 3),
      _stack(depths[4], depths[5], 5, 2, 6, 3),
      _stack(depths[5], depths[6], 3, 1, 6, 2),
      _stack(depths[6], depths[7], 5, 2, 6, 4),
      _stack(depths[7], depths[8], 3, 1, 6, 1)>>

\* a plausible slip: the final convolution sized by depths[6], not depths[7]
HeadLayersWrongDepth(depths) ==
    <<Conv2D(depths[7], 1280, 1, 0, 1, 1),
      BatchNorm2D(1280),
      ReLU,
      AdaptiveAvgPool2D(1),
      Flatten>>

\* Final mapping to classifier input.
HeadLayers(depths) ==
    <<Conv2D(depths[8], 1280, 1, 0, 1, 1),
      BatchNorm2D(1280),
      ReLU,
      AdaptiveAvgPool2D(1),
      Flatten>>

MNASNet(alpha, class_num) ==
    IF ~AlphaOk(alpha) THEN Raise(0)
    ELSE LET depths == _get_depths(alpha)
             stem == StemLayers(depths)
             stacks == Stacks(depths)
             head == HeadLayers(depths)
         IN  IF AnyRaised(stacks)
             THEN Raise(CountItems(stem, 1) + CreatedUpTo(stacks, 1))
             ELSE Built([kind |-> "MNASNet",
                         alpha |-> alpha,
                         num_classes |-> class_num,
                         layers |-> Sequential(stem
                                               \o [i \in 1..Len(stacks) |-> stacks[i].obj]
                                               \o head),
                         classifier |-> Linear(1280, class_num)])

(***************************************************************************)
(* The preset constructors.                                                *)
(***************************************************************************)
mnasnet0_5(class_num) == MNASNet(Rat(1, 2), class_num)

\* a plausible slip: the multiplier of the neighbouring preset
mnasnet0_75Copied(class_num) == MNASNet(Rat(1, 2), class_num)

mnasnet0_75(class_num) == MNASNet(Rat(3, 4), class_num)

mnasnet1_0(class_num) == MNASNet(Rat(1, 1), class_num)

mnasnet1_3(class_num) == MNASNet(Rat(13, 10), class_num)

PresetNames == {"mnasnet0_5", "mnasnet0_75", "mnasnet1_0", "mnasnet1_3"}

(***************************************************************************)
(* What can be read off a built object.                                    *)
(***************************************************************************)
BlockInCh(block) == block.layers.items[1].in_channels

BlockOutCh(block) == block.layers.items[7].out_channels

BlockStride(block) == block.layers.items[4].stride

\* The i-th of the six stacks of a network
StackOf(net, i) == net.layers.items[Len(StemLayers(ReferenceDepths)) + i]

\* The depth list a network was sized by
DepthsOf(net) ==
    <<net.layers.items[1].out_channels, net.layers.items[7].out_channels>>
    \o [i \in 1..6 |-> BlockOutCh(StackOf(net, i).items[1])]

(***************************************************************************)
(* The calls.                                                              *)
(***************************************************************************)
Vals == {Rat(k, ValDen) : k \in 1..MaxValNum}

Biases == {Rat(b, BiasDen) : b \in 0..BiasDen} \cup {DefaultRoundUpBias}

Alphas == {Rat(k, AlphaDen) : k \in (-1)..MaxAlphaNum}

Channels == {8 * m : m \in 1..MaxChMult}

ExpansionFactors == {3, 6}

\* The input of the module's own run: paddle.full([1, 3, 224, 224], 0.01)
ImageSize == 224

RoundCalls ==
    {[fn |-> "_round_to_multiple_of", val |-> v, divisor |-> d, round_up_bias |-> b] :
        v \in Vals, d \in 1..MaxDivisor, b \in Biases}

DepthCalls == {[fn |-> "_get_depths", alpha |-> a] : a \in Alphas}

BlockCalls ==
    {[fn |-> "_InvertedResidual", in_ch |-> c[1], out_ch |-> c[2],
      kernel_size |-> k, stride |-> s, expansion_factor |-> e,
      input |-> Tensor(<<x[1], c[1], x[2], x[2]>>)] :
        c \in Channels \X Channels, k \in 1..MaxKernel, s \in 0..MaxStride,
        e \in ExpansionFactors,
        x \in (1..MaxBatch) \X {MaxSpatial - 1, MaxSpatial}}

StackCalls ==
    {[fn |-> "_stack", in_ch |-> c[1], out_ch |-> c[2],
      kernel_size |-> k, stride |-> s, exp_factor |-> e, repeats |-> r] :
        c \in Channels \X Channels, k \in 1..MaxKernel, s \in 0..MaxStride,
        e \in ExpansionFactors, r \in 0..MaxRepeats}

NetCalls ==
    {[fn |-> "MNASNet", alpha |-> a, class_num |-> c,
      input |-> Tensor(<<n, 3, ImageSize, ImageSize>>)] :
        a \in Alphas, c \in 1..MaxClassNum, n \in 1..MaxBatch}

PresetCalls == {[fn |-> "presets"]}

Init ==
    /\ pc = "ready"
    /\ call \in RoundCalls \cup DepthCalls \cup BlockCalls \cup StackCalls
                \cup NetCalls \cup PresetCalls
    /\ ret = NoValue
    /\ obj = NoValue
    /\ models = [p \in PresetNames |-> NoValue]

\* A constructor call returns its object or raises.
Construct(result) ==
    /\ pc' = IF result.raised THEN "raised" ELSE "returned"
    /\ ret' = result
    /\ obj' = result.obj
    /\ UNCHANGED <<call, models>>

CallRoundToMultipleOf ==
    /\ pc = "ready"
    /\ call.fn = "_round_to_multiple_of"
    /\ LET r == _round_to_multiple_of(call.val, call.divisor, call.round_up_bias)
       IN  /\ pc' = IF r.raised THEN "raised" ELSE "returned"
           /\ ret' = r
    /\ UNCHANGED <<call, obj, models>>

CallGetDepths ==
    /\ pc = "ready"
    /\ call.fn = "_get_depths"
    /\ pc' = "returned"
    /\ ret' = _get_depths(call.alpha)
    /\ UNCHANGED <<call, obj, models>>

NewInvertedResidual ==
    /\ pc = "ready"
    /\ call.fn = "_InvertedResidual"
    /\ Construct(_InvertedResidual(call.in_ch, call.out_ch, call.kernel_size,
                                   call.stride, call.expansion_factor))

CallStack ==
    /\ pc = "ready"
    /\ call.fn = "_stack"
    /\ Construct(_stack(call.in_ch, call.out_ch, call.kernel_size, call.stride,
                        call.exp_factor, call.repeats))

NewMNASNet ==
    /\ pc = "ready"
    /\ call.fn = "MNASNet"
    /\ Construct(MNASNet(call.alpha, call.class_num))

ForwardInvertedResidual ==
    /\ pc = "returned"
    /\ call.fn = "_InvertedResidual"
    /\ pc' = "evaluated"
    /\ ret' = Forward(obj, call.input)
    /\ UNCHANGED <<call, obj, models>>

ForwardMNASNet ==
    /\ pc = "returned"
    /\ call.fn = "MNASNet"
    /\ pc' = "evaluated"
    /\ ret' = Forward(obj, call.input)
    /\ UNCHANGED <<call, obj, models>>

\* model = MNASNet(alpha, **kwargs); return model -- the caller keeps the model
KeepModel(name, result) ==
    /\ ~result.raised
    /\ models' = [models EXCEPT ![name] = result.obj]
    /\ UNCHANGED <<pc, call, ret, obj>>

CallMnasnet0_5 ==
    /\ pc = "ready"
    /\ call.fn = "presets"
    /\ \E c \in 1..MaxClassNum : KeepModel("mnasnet0_5", mnasnet0_5(c))

CallMnasnet0_75 ==
    /\ pc = "ready"
    /\ call.fn = "presets"
    /\ \E c \in 1..MaxClassNum : KeepModel("mnasnet0_75", mnasnet0_75(c))

CallMnasnet1_0 ==
    /\ pc = "ready"
    /\ call.fn = "presets"
    /\ \E c \in 1..MaxClassNum : KeepModel("mnasnet1_0", mnasnet1_0(c))

CallMnasnet1_3 ==
    /\ pc = "ready"
    /\ call.fn = "presets"
    /\ \E c \in 1..MaxClassNum : KeepModel("mnasnet1_3", mnasnet1_3(c))

Next ==
    \/ CallRoundToMultipleOf
    \/ CallGetDepths
    \/ NewInvertedResidual
    \/ CallStack
    \/ NewMNASNet
    \/ ForwardInvertedResidual
    \/ ForwardMNASNet
    \/ CallMnasnet0_5
    \/ CallMnasnet0_75
    \/ CallMnasnet1_0
    \/ CallMnasnet1_3

Spec == Init /\ [][Next]_vars

(***************************************************************************)
(* Properties.                                                             *)
(***************************************************************************)
Finished(fn) == pc # "ready" /\ call.fn = fn

Returned(fn) == pc = "returned" /\ call.fn = fn

Evaluated(fn) == pc = "evaluated" /\ call.fn = fn

\* C1: a network built with alpha > 0 and class_num >= 1 is built, and its
\* forward on an input of shape (N, 3, 224, 224) meets no layer whose declared
\* input channels differ from the channels it is handed, and returns a tensor
\* of shape (N, class_num).
C1_ForwardShape ==
    /\ (Finished("MNASNet") /\ call.alpha.num > 0) => pc \in {"returned", "evaluated"}
    /\ Evaluated("MNASNet") =>
          /\ ret.ok
          /\ ret.shape = <<call.input.shape[1], call.class_num>>

C1_Witness ==
    /\ Evaluated("MNASNet")
    /\ call.alpha.num * 10 = 13 * call.alpha.den
    /\ call.class_num = 2
    /\ ret.ok
    /\ ret.shape = <<2, 2>>

\* C2: for alpha > 0, _get_depths(alpha) is a list of exactly 8 values, each a
\* positive integer and a multiple of 8.
C2_DepthsPositiveMultiplesOf8 ==
    (Returned("_get_depths") /\ call.alpha.num > 0) =>
        /\ Len(ret) = 8
        /\ \A i \in 1..Len(ret) : ret[i] \in Nat /\ ret[i] > 0 /\ ret[i] % 8 = 0

C2_Witness ==
    /\ Returned("_get_depths")
    /\ call.alpha.num * 4 = 3 * call.alpha.den
    /\ ret = <<24, 16, 24, 32, 64, 72, 144, 240>>

\* C3: the forward of a block built with valid parameters returns
\* layers(input) + input if and only if in_ch = out_ch and stride = 1, and
\* layers(input) with nothing added otherwise.
C3_ResidualIffSameShape ==
    Evaluated("_InvertedResidual") =>
        /\ call.kernel_size \in {3, 5} /\ call.stride \in {1, 2}
        /\ ret = IF call.in_ch = call.out_ch /\ call.stride = 1
                 THEN Add(Forward(obj.layers, call.input), call.input)
                 ELSE Forward(obj.layers, call.input)
        /\ ret.ok
        /\ ret.adds = IF call.in_ch = call.out_ch /\ call.stride = 1 THEN 1 ELSE 0

C3_Witness ==
    /\ Evaluated("_InvertedResidual")
    /\ call.in_ch = call.out_ch
    /\ call.stride = 1
    /\ ret.ok
    /\ ret.adds = 1
    /\ ret.shape = call.input.shape

\* The calls C4 is about: a constructor handed an invalid parameter
InvalidCall ==
    \/ call.fn = "MNASNet" /\ call.alpha.num <= 0
    \/ call.fn = "_InvertedResidual"
          /\ (call.kernel_size \notin {3, 5} \/ call.stride \notin {1, 2})
    \/ call.fn = "_stack"
          /\ (call.repeats < 1 \/ call.kernel_size \notin {3, 5}
                \/ call.stride \notin {1, 2})

\* C4: a constructor called with an invalid parameter (MNASNet with
\* alpha <= 0, _InvertedResidual with kernel_size outside {3, 5} or stride
\* outside {1, 2}, _stack with repeats < 1 or such a kernel_size or stride)
\* raises, having created no convolution, batch-normalization or linear
\* layer, and returns no object: nothing is left to fail at forward.
C4_InvalidRaisesBeforeLayers ==
    (pc # "ready" /\ InvalidCall) =>
        /\ pc = "raised"
        /\ ret.raised
        /\ ret.created = 0
        /\ obj = NoValue

C4_Witness ==
    /\ pc = "raised"
    /\ call.fn = "_InvertedResidual"
    /\ call.kernel_size \in {3, 5}
    /\ call.stride = 3
    /\ ret.created = 0
    /\ obj = NoValue

\* The reference rule of C5: the multiple of the divisor nearest to val, the
\* larger one on a tie, and one divisor more when that is below bias * val.
Dist(val, m) ==
    IF val.num >= m * val.den THEN val.num - m * val.den ELSE m * val.den - val.num

NearestMultiple(val, divisor) ==
    LET multiples == {k * divisor : k \in 0..(val.num \div (val.den * divisor) + 1)}
    IN  CHOOSE m \in multiples :
            \A n \in multiples :
                \/ Dist(val, m) < Dist(val, n)
                \/ Dist(val, m) = Dist(val, n) /\ m >= n

ReferenceRule(val, divisor, bias) ==
    LET m == NearestMultiple(val, divisor)
    IN  IF m * bias.den * val.den < bias.num * val.num THEN m + divisor ELSE m

IsVal(n) == call.val.num = n * call.val.den

\* C5: for val > 0, divisor 8 and a bias in (0, 1), _round_to_multiple_of
\* returns what the reference rule gives; with the default bias 0.9,
\* (83, 8) gives 80 and (84, 8) gives 88.
C5_MatchesReferenceRule ==
    (Returned("_round_to_multiple_of") /\ call.divisor = 8) =>
        /\ ret.value = ReferenceRule(call.val, 8, call.round_up_bias)
        /\ (call.round_up_bias = Rat(9, 10) /\ IsVal(83)) => ret.value = 80
        /\ (call.round_up_bias = Rat(9, 10) /\ IsVal(84)) => ret.value = 88

C5_Witness ==
    /\ Returned("_round_to_multiple_of")
    /\ call.divisor = 8
    /\ call.round_up_bias = Rat(9, 10)
    /\ IsVal(83)
    /\ ret.value = 80

\* The largest multiple of 8 not above val
RoundedDown(val) == (val.num \div (8 * val.den)) * 8

DefaultCallOffMultiple ==
    /\ Returned("_round_to_multiple_of")
    /\ call.divisor = 8
    /\ call.round_up_bias = Rat(9, 10)
    /\ call.val.num % (8 * call.val.den) # 0

PresetAlpha ==
    [p \in PresetNames |->
        CASE p = "mnasnet0_5" -> Rat(1, 2)
          [] p = "mnasnet0_75" -> Rat(3, 4)
          [] p = "mnasnet1_0" -> Rat(1, 1)
          [] p = "mnasnet1_3" -> Rat(13, 10)]

\* C7: the networks the four presets build have alpha 0.5, 0.75, 1.0 and 1.3,
\* their depth lists are pairwise distinct, and the depth list of alpha = 1.0
\* is [32, 16, 24, 40, 80, 96, 192, 320].
C7_PresetDepths ==
    /\ \A p \in PresetNames :
          models[p] # NoValue =>
              /\ models[p].alpha = PresetAlpha[p]
              /\ DepthsOf(models[p]) = _get_depths(PresetAlpha[p])
    /\ \A p, q \in PresetNames :
          (p # q /\ models[p] # NoValue /\ models[q] # NoValue) =>
              DepthsOf(models[p]) # DepthsOf(models[q])
    /\ models["mnasnet1_0"] # NoValue =>
          DepthsOf(models["mnasnet1_0"]) = <<32, 16, 24, 40, 80, 96, 192, 320>>

C7_Witness ==
    /\ \A p \in PresetNames : models[p] # NoValue
    /\ DepthsOf(models["mnasnet0_5"]) = <<16, 8, 16, 24, 40, 48, 96, 160>>
    /\ DepthsOf(models["mnasnet1_3"]) = <<40, 24, 32, 56, 104, 128, 248, 416>>

\* C8: _stack with repeats >= 1 and a valid kernel_size and stride returns
\* exactly `repeats` blocks: the first maps in_ch to out_ch with the given
\* stride, every later one maps out_ch to out_ch with stride 1 and applies
\* the residual shortcut.
C8_StackShape ==
    /\ (Finished("_stack") /\ call.repeats >= 1 /\ call.kernel_size \in {3, 5}
            /\ call.stride \in {1, 2}) => pc = "returned"
    /\ Returned("_stack") =>
          /\ Len(obj.items) = call.repeats
          /\ BlockInCh(obj.items[1]) = call.in_ch
          /\ BlockOutCh(obj.items[1]) = call.out_ch
          /\ BlockStride(obj.items[1]) = call.stride
          /\ \A i \in 2..Len(obj.items) :
                /\ obj.items[i].kind = "_InvertedResidual"
                /\ BlockInCh(obj.items[i]) = call.out_ch
                /\ BlockOutCh(obj.items[i]) = call.out_ch
                /\ BlockStride(obj.items[i]) = 1
                /\ obj.items[i].apply_residual

C8_Witness ==
    /\ Returned("_stack")
    /\ call.repeats = 3
    /\ call.in_ch # call.out_ch
    /\ call.stride = 2
    /\ Len(obj.items) = 3
    /\ ~obj.items[1].apply_residual
    /\ obj.items[3].apply_residual

\* C9: in every network built with alpha > 0, the first block of each of the
\* six stacks has no skip connection.
C9_FirstBlockNoSkip ==
    (Finished("MNASNet") /\ call.alpha.num > 0 /\ obj # NoValue) =>
        \A i \in 1..6 : ~StackOf(obj, i).items[1].apply_residual

\* C10: for val > 0, a positive integer divisor and a bias in (0, 1), the
\* value r returned by _round_to_multiple_of satisfies
\* bias * val <= r < val + divisor.
C10_RoundedWithinBounds ==
    Returned("_round_to_multiple_of") =>
        /\ call.round_up_bias.num * call.val.num
              <= ret.value * call.round_up_bias.den * call.val.den
        /\ ret.value * call.val.den < call.val.num + call.divisor * call.val.den

C10_Witness ==
    /\ Returned("_round_to_multiple_of")
    /\ call.divisor = 5
    /\ call.round_up_bias = Rat(9, 10)
    /\ IsVal(7)
    /\ ret.value = 10

====
